---------------------------- MODULE Spec2Model ----------------------------
(***************************************************************************)
(* A model of spotify_playlist_exporter.user.js: the injected export       *)
(* button, the MutationObserver watcher, the scroll-until-stable collector *)
(* (scrollToLoadAllSongs), the row parser (extractSongs) and the export    *)
(* cycle (exportSongs), run against a host page that virtualizes its       *)
(* track list.                                                             *)
(*                                                                         *)
(* Text is a sequence of one-character strings, so that trim, join and the *)
(* template literal are computed rather than assumed.                      *)
(***************************************************************************)
EXTENDS Integers, Sequences, FiniteSets, TLC

(***************************************************************************)
(* Bounds of the model.                                                    *)
(***************************************************************************)
\* Rows the host materializes at once (the size of its window).
MaxRows == 1
\* Logical items of the playlist; more than the window, so the list is
\* virtualized.
PlaylistLen == 2
\* exportSongs invocations that may be in progress at once.
MaxRuns == 2
\* Rows in the DOM of the specification that exercises extractSongs alone.
MaxExtractRows == 2

(***************************************************************************)
(* Constants of the program.                                               *)
(***************************************************************************)
\* for (let i = 0; i < 100; i++)
MaxIterations == 100
\* if (sameCountTimes > 3) break;
StabilityThreshold == 3

(***************************************************************************)
(* Text.                                                                   *)
(***************************************************************************)
\* The characters String.prototype.trim removes that occur in the model.
WhiteSpace == {" ", "\n", "\t"}

RECURSIVE TrimStart(_)
TrimStart(s) ==
    IF s # <<>> /\ Head(s) \in WhiteSpace THEN TrimStart(Tail(s)) ELSE s

RECURSIVE TrimEnd(_)
TrimEnd(s) ==
    IF s # <<>> /\ s[Len(s)] \in WhiteSpace
    THEN TrimEnd(SubSeq(s, 1, Len(s) - 1))
    ELSE s

\* textContent.trim()
Trim(s) == TrimEnd(TrimStart(s))

\* Array.prototype.join: the elements of parts with sep between them.
RECURSIVE Join(_, _)
Join(parts, sep) ==
    IF parts = <<>> THEN <<>>
    ELSE IF Len(parts) = 1 THEN Head(parts)
    ELSE Head(parts) \o sep \o Join(Tail(parts), sep)

\* '[Unknown Title]'
UnknownTitle ==
    <<"[", "U", "n", "k", "n", "o", "w", "n", " ",
      "T", "i", "t", "l", "e", "]">>

\* The " - " of the template literal `${title} - ${artists}`.
Dash == <<" ", "-", " ">>

\* The ', ' the artist names are joined with.
Comma == <<",", " ">>

\* The '\n' the lines are joined with.
NewLine == <<"\n">>

(***************************************************************************)
(* Rows.  A tracklist row is what extractSongs can see of it: the text of  *)
(* its title element (or none), the texts of its artist links in document  *)
(* order, and whether reading it raises ("title": while the title is read, *)
(* "artists": while the artist links are read).                            *)
(***************************************************************************)
NoTitle == <<"<none>">>

RowPool ==
    << [title |-> <<" ", "A", " ">>, artists |-> << <<"x">>, <<"y", " ">> >>,
        fault |-> "none"],
       [title |-> NoTitle, artists |-> << <<"x">>, <<" ", "y">> >>,
        fault |-> "none"],
       [title |-> <<"B">>, artists |-> << >>, fault |-> "none"],
       [title |-> <<"C">>, artists |-> << <<"z">> >>, fault |-> "artists"],
       [title |-> NoTitle, artists |-> << >>, fault |-> "title"] >>

PoolIds == 1..Len(RowPool)

\* Array.from(artistLinks).map(a => a.textContent.trim())
RECURSIVE MapTrim(_)
MapTrim(links) ==
    IF links = <<>> THEN <<>>
    ELSE <<Trim(Head(links))>> \o MapTrim(Tail(links))

\* TitleOf without the fallback: a missing title reads as empty.
TitleOfBlank(row) ==
    IF row.title = NoTitle THEN <<>> ELSE Trim(row.title)

\* The title of a row: titleDiv ? titleDiv.textContent.trim() : '[Unknown Title]'
TitleOf(row) ==
    IF row.title = NoTitle THEN UnknownTitle ELSE Trim(row.title)

\* ArtistsOf with the separator of a join() without an argument.
ArtistsOfBare(row) == Join(MapTrim(row.artists), <<",">>)

\* The artists of a row, joined.
ArtistsOf(row) == Join(MapTrim(row.artists), Comma)

\* RowLines that also skips a row without a title or without artists.
RowLinesSkipMalformed(row) ==
    IF row.fault # "none" \/ row.title = NoTitle \/ row.artists = <<>>
    THEN <<>>
    ELSE << TitleOf(row) \o Dash \o ArtistsOf(row) >>

\* The body of the try block for one row: the lines it pushes onto songs.
\* A read that raises leaves the block before songs.push, and the empty
\* catch swallows the error.
RowLines(row) ==
    IF row.fault # "none" THEN <<>>
    ELSE << TitleOf(row) \o Dash \o ArtistsOf(row) >>

\* extractSongs that puts each record in front of those it has.
RECURSIVE extractSongsUnshift(_)
extractSongsUnshift(ids) ==
    IF ids = <<>> THEN <<>>
    ELSE extractSongsUnshift(Tail(ids)) \o RowLines(RowPool[Head(ids)])

\* rows.forEach(row => { try { ... } catch (e) {} }) over the rows of ids.
RECURSIVE extractSongs(_)
extractSongs(ids) ==
    IF ids = <<>> THEN <<>>
    ELSE RowLines(RowPool[Head(ids)]) \o extractSongs(Tail(ids))


\* const text = songs.join('\n')
TextOf(lines) == Join(lines, NewLine)

(***************************************************************************)
(* The page and the runs of exportSongs.                                   *)
(***************************************************************************)
\* The three selectors scrollToLoadAllSongs tries, in the order of the ||.
Selectors == <<"presentation", "playlist-tracklist", "track-list">>

SelectorSet == {Selectors[k] : k \in 1..Len(Selectors)}

\* The views of the host the model tells apart by the selectors that match:
\* none, one alone, or all three.
Views == {{}} \cup {{s} : s \in SelectorSet} \cup {SelectorSet}

\* The invocations of exportSongs the model keeps apart.
Runs == 1..MaxRuns

\* Button elements: the one in the page and those detached from it that a
\* run in progress still holds in its const btn.
ButtonIds == 1..(MaxRuns + 1)

\* The logical playlist of the host: item k shows the row RowPool[Playlist[k]].
Playlist == [k \in 1..PlaylistLen |-> ((k - 1) % Len(RowPool)) + 1]

\* What a virtualizing host can have materialized: a window of consecutive
\* items, of at most MaxRows rows (none while nothing is rendered).
Windows ==
    {SubSeq(Playlist, w[1], w[2]) :
        w \in {v \in (1..PlaylistLen) \X (0..PlaylistLen) :
                    v[2] >= v[1] - 1 /\ v[2] - v[1] + 1 <= MaxRows}}

\* A list of 37 items, and the frames of a host that has 36 of its rows
\* materialized, or all 37.
LongList == [k \in 1..37 |-> ((k - 1) % Len(RowPool)) + 1]

LongFrames == {SubSeq(LongList, 1, n) : n \in {36, 37}}

\* Any rows at all, for the specification of extractSongs alone.
AnyRows == UNION {[1..n -> PoolIds] : n \in 0..MaxExtractRows}

VARIABLES
    header,          \* the page has an entityHeader / header element
    pageBtn,         \* what getElementById('export-songs-btn') returns, or 0
    inPage,          \* the elements with id export-songs-btn in the page
    disabled,        \* btn.disabled of each button element
    label,           \* btn.textContent of each button element
    containers,      \* the selectors of Selectors that match an element
    rows,            \* the tracklist rows in the DOM, in document order
    pending,         \* mutation records queued for the MutationObserver
    pc,              \* where each run of exportSongs is
    btn,             \* its const btn
    i,               \* its loop variable
    lastCount,       \* its lastCount
    sameCountTimes,  \* its sameCountTimes
    rowsRead,        \* the const rows of its extractSongs: the rows it read
    songs,           \* its const songs
    scrolls,         \* scrollTo calls it has made
    sleeps,          \* sleep(700) calls it has made
    polls,           \* row counts its loop has taken
    seen,            \* lastCount's initial 0, then the counts taken (the last few)
    satisfiedAt,     \* the poll at which the count had first stayed the same
                     \* for more than StabilityThreshold polls in a row, or 0
    changedAt,       \* the last poll whose count differed from the one before
    extracts,        \* extractSongs calls it has made
    alerts,          \* the alerts it has shown
    copied,          \* the texts it has written to the clipboard
    downloaded       \* the texts it has offered as spotify_songs.txt

domVars == <<header, pageBtn, inPage, disabled, label, containers, rows, pending>>

runVars ==
    <<pc, btn, i, lastCount, sameCountTimes, rowsRead, songs, scrolls,
      sleeps, polls, seen, satisfiedAt, changedAt, extracts, alerts, copied,
      downloaded>>

vars == <<domVars, runVars>>

\* How many of the counts taken the model remembers: enough to see a streak
\* that exceeds the threshold, and the count before it.
HistLen == StabilityThreshold + 2

\* The last n elements of s.
LastN(s, n) == IF Len(s) <= n THEN s ELSE SubSeq(s, Len(s) - n + 1, Len(s))

\* The alerts of the script.
ContainerNotFound == [kind |-> "containerNotFound", n |-> 0]

NoSongsFound == [kind |-> "noSongs", n |-> 0]

Exported(n) == [kind |-> "exported", n |-> n]

\* What a sink can do with the text: take it, reject it later (the promise
\* of navigator.clipboard.writeText), or raise at the call.
ClipResults == {"ok", "rejects", "throws"}

DownloadResults == {"ok", "throws"}


(***************************************************************************)
(* The decisions of the code, as operators.                                *)
(***************************************************************************)
\* document.querySelector(a) || document.querySelector(b) || ...: the first
\* selector that matches, or "none".
RECURSIVE FirstMatch(_, _)
FirstMatch(sels, cs) ==
    IF sels = <<>> THEN "none"
    ELSE IF Head(sels) \in cs THEN Head(sels)
    ELSE FirstMatch(Tail(sels), cs)

\* FindContainer without the two fallbacks of the ||.
FindContainerFirstOnly(cs) == FirstMatch(<<Selectors[1]>>, cs)

FindContainer(cs) == FirstMatch(Selectors, cs)

\* NextStreak without the else branch: a differing count leaves the streak.
NextStreakNoReset(count, last, streak) ==
    IF count = last THEN streak + 1 ELSE streak

\* sameCountTimes after a round that counted count rows.
NextStreak(count, last, streak) == IF count = last THEN streak + 1 ELSE 0

\* Breaks with >= for >.
BreaksEarly(count, last, streak) ==
    count = last /\ NextStreak(count, last, streak) >= StabilityThreshold

\* Breaks with the test made one round late.
BreaksLate(count, last, streak) ==
    count = last /\ NextStreak(count, last, streak) > StabilityThreshold + 1

\* if (sameCountTimes > 3) break;   (reached only when the count is the same)
Breaks(count, last, streak) ==
    count = last /\ NextStreak(count, last, streak) > StabilityThreshold

\* Exhausted with the bound of the loop off by one.
ExhaustedEarly(iNow) == ~(iNow + 1 < MaxIterations - 1)

\* Exhausted with <= for <.
ExhaustedLate(iNow) == ~(iNow + 1 <= MaxIterations)

\* i++ and then the test i < 100 fails.
Exhausted(iNow) == ~(iNow + 1 < MaxIterations)

\* NoSongs with the test left out.
NoSongsNever(s) == FALSE

\* if (songs.length === 0)
NoSongs(s) == Len(s) = 0

\* exportSongs from const songs = extractSongs() to its end, on the rows ids,
\* with what the two sinks do: the fields a run ends with.  reset says that
\* btn was given its label back and enabled, appended that the download link
\* was put into document.body.  A sink that raises ends exportSongs there.
Outcome(ids, clip, dl) ==
    LET s == extractSongs(ids)
        text == TextOf(s)
        written == IF clip = "ok" THEN <<text>> ELSE <<>>
        raised == [rowsRead |-> ids, songs |-> s, alerts |-> <<>>,
                   copied |-> <<>>, downloaded |-> <<>>, pc |-> "failed",
                   reset |-> FALSE, appended |-> FALSE, extracts |-> 1]
    IN  IF NoSongs(s)
        THEN [raised EXCEPT !.alerts = <<NoSongsFound>>, !.pc = "done",
                            !.reset = TRUE]
        ELSE IF clip = "throws" THEN raised
        ELSE IF dl = "throws" THEN [raised EXCEPT !.copied = written]
        ELSE [raised EXCEPT !.alerts = <<Exported(Len(s))>>,
                            !.copied = written, !.downloaded = <<text>>,
                            !.pc = "done", !.reset = TRUE, !.appended = TRUE]

\* A run is in progress while it sleeps between two rounds: everything else
\* of exportSongs runs to its end without giving up control.
Active(r) == pc[r] = "sleeping"

\* The run a click starts: the first that is not in progress.
FreeRun == CHOOSE r \in Runs : ~Active(r) /\ \A q \in Runs : ~Active(q) => r <= q

\* The element document.createElement('button') yields: one that is neither
\* in the page nor held by a run in progress.
NewButton ==
    CHOOSE b \in ButtonIds :
        /\ b # pageBtn /\ \A r \in Runs : Active(r) => btn[r] # b
        /\ \A c \in ButtonIds :
            (c # pageBtn /\ \A r \in Runs : Active(r) => btn[r] # c) => b <= c

\* Adds without the lookup of the button by its id.
AddsWithoutLookup == header

\* addExportButton adds a button: there is none and there is a header.
Adds == pageBtn = 0 /\ header


(***************************************************************************)
(* The fields of one run, read and written together.                       *)
(***************************************************************************)
RunOf(r) ==
    [pc |-> pc[r], btn |-> btn[r], i |-> i[r], lastCount |-> lastCount[r],
     sameCountTimes |-> sameCountTimes[r], rowsRead |-> rowsRead[r],
     songs |-> songs[r],
     scrolls |-> scrolls[r], sleeps |-> sleeps[r], polls |-> polls[r],
     seen |-> seen[r], satisfiedAt |-> satisfiedAt[r],
     changedAt |-> changedAt[r], extracts |-> extracts[r],
     alerts |-> alerts[r], copied |-> copied[r], downloaded |-> downloaded[r]]

SetRun(r, v) ==
    /\ pc' = [pc EXCEPT ![r] = v.pc]
    /\ btn' = [btn EXCEPT ![r] = v.btn]
    /\ i' = [i EXCEPT ![r] = v.i]
    /\ lastCount' = [lastCount EXCEPT ![r] = v.lastCount]
    /\ sameCountTimes' = [sameCountTimes EXCEPT ![r] = v.sameCountTimes]
    /\ rowsRead' = [rowsRead EXCEPT ![r] = v.rowsRead]
    /\ songs' = [songs EXCEPT ![r] = v.songs]
    /\ scrolls' = [scrolls EXCEPT ![r] = v.scrolls]
    /\ sleeps' = [sleeps EXCEPT ![r] = v.sleeps]
    /\ polls' = [polls EXCEPT ![r] = v.polls]
    /\ seen' = [seen EXCEPT ![r] = v.seen]
    /\ satisfiedAt' = [satisfiedAt EXCEPT ![r] = v.satisfiedAt]
    /\ changedAt' = [changedAt EXCEPT ![r] = v.changedAt]
    /\ extracts' = [extracts EXCEPT ![r] = v.extracts]
    /\ alerts' = [alerts EXCEPT ![r] = v.alerts]
    /\ copied' = [copied EXCEPT ![r] = v.copied]
    /\ downloaded' = [downloaded EXCEPT ![r] = v.downloaded]

\* A run that has not begun.
Idle ==
    [pc |-> "idle", btn |-> 0, i |-> 0,
     lastCount |-> 0, sameCountTimes |-> 0, rowsRead |-> <<>>,
     songs |-> <<>>, scrolls |-> 0,
     sleeps |-> 0, polls |-> 0, seen |-> <<>>, satisfiedAt |-> 0,
     changedAt |-> 0, extracts |-> 0, alerts |-> <<>>, copied |-> <<>>,
     downloaded |-> <<>>]

\* The run v once the rest of exportSongs has run with outcome o.
Ended(v, o) ==
    [v EXCEPT !.pc = o.pc, !.rowsRead = o.rowsRead, !.songs = o.songs,
              !.extracts = v.extracts + o.extracts,
              !.alerts = v.alerts \o o.alerts,
              !.copied = o.copied, !.downloaded = o.downloaded]

\* Scrolling with a lastCount that no count equals before the first round.
ScrollingFromUnset(v) ==
    [v EXCEPT !.pc = "sleeping", !.seen = <<0>>, !.scrolls = 1, !.sleeps = 1,
              !.lastCount = -1]

\* Scrolling with the rows read once before the first round.
ScrollingAfterReading(v) ==
    [v EXCEPT !.pc = "sleeping", !.seen = <<0>>, !.scrolls = 1, !.sleeps = 1,
              !.extracts = 1]

\* The run v once scrollToLoadAllSongs has found a container and has begun
\* its first round: scrollTo, then sleep.
Scrolling(v) ==
    [v EXCEPT !.pc = "sleeping", !.seen = <<0>>, !.scrolls = 1, !.sleeps = 1]

(***************************************************************************)
(* The script.                                                             *)
(***************************************************************************)
\* A click on the enabled button: exportSongs, up to its first sleep, or to
\* its end when scrollToLoadAllSongs returns at once.  A task of the page
\* starts only once the observer has been notified of the mutations queued.
ExportSongs ==
    /\ pageBtn # 0
    /\ ~disabled[pageBtn]
    /\ ~pending
    /\ \E r \in Runs : ~Active(r)
    /\ LET r == FreeRun
           b == pageBtn
           sc == FindContainer(containers)
           v == [Idle EXCEPT !.btn = b]
       IN  IF sc = "none"
           THEN \E clip \in ClipResults, dl \in DownloadResults :
                   LET o == Outcome(rows, clip, dl)
                   IN  /\ SetRun(r, Ended([v EXCEPT !.alerts =
                                                <<ContainerNotFound>>], o))
                       /\ label' = [label EXCEPT ![b] =
                             IF o.reset THEN "Export Songs" ELSE "Exporting..."]
                       /\ disabled' = [disabled EXCEPT ![b] = ~o.reset]
           ELSE /\ SetRun(r, Scrolling(v))
                /\ label' = [label EXCEPT ![b] = "Exporting..."]
                /\ disabled' = [disabled EXCEPT ![b] = TRUE]
    /\ pending' = TRUE
    /\ UNCHANGED <<header, pageBtn, inPage, containers, rows>>

\* The timer of sleep(700) fires for run r: the rest of the round, and then
\* either the next scrollTo and sleep, or the rest of exportSongs.
Round(r) ==
    /\ Active(r)
    /\ ~pending
    /\ LET count == Len(rows)
           v == RunOf(r)
           brk == Breaks(count, v.lastCount, v.sameCountTimes)
           over == brk \/ Exhausted(v.i)
           hist == LastN(Append(v.seen, count), HistLen)
           flat == Len(hist) = HistLen /\ \A k \in 1..Len(hist) : hist[k] = hist[1]
           w == [v EXCEPT
                   !.sameCountTimes =
                       NextStreak(count, v.lastCount, v.sameCountTimes),
                   !.lastCount = IF brk THEN v.lastCount ELSE count,
                   !.i = IF brk THEN v.i ELSE v.i + 1,
                   !.polls = v.polls + 1,
                   !.seen = hist,
                   !.satisfiedAt =
                       IF v.satisfiedAt = 0 /\ flat THEN v.polls + 1
                       ELSE v.satisfiedAt,
                   !.changedAt =
                       IF count # v.seen[Len(v.seen)] THEN v.polls + 1
                       ELSE v.changedAt]
       IN  IF over
           THEN \E clip \in ClipResults, dl \in DownloadResults :
                   LET o == Outcome(rows, clip, dl)
                   IN  /\ SetRun(r, Ended(w, o))
                       /\ label' = [label EXCEPT ![v.btn] =
                             IF o.reset THEN "Export Songs" ELSE @]
                       /\ disabled' = [disabled EXCEPT ![v.btn] =
                             IF o.reset THEN FALSE ELSE @]
                       /\ pending' =
                             (o.appended \/ (o.reset /\ v.btn = pageBtn))
           ELSE /\ SetRun(r, [w EXCEPT !.scrolls = w.scrolls + 1,
                                       !.sleeps = w.sleeps + 1])
                /\ UNCHANGED <<label, disabled, pending>>
    /\ UNCHANGED <<header, pageBtn, inPage, containers, rows>>

\* addExportButton, as the callback of the MutationObserver.
ObserverCallback ==
    /\ pending
    /\ IF Adds
       THEN /\ pageBtn' = NewButton
            /\ inPage' = inPage \cup {NewButton}
            /\ label' = [label EXCEPT ![NewButton] = "Export Songs"]
            /\ disabled' = [disabled EXCEPT ![NewButton] = FALSE]
            /\ pending' = TRUE
       ELSE /\ pending' = FALSE
            /\ UNCHANGED <<pageBtn, inPage, label, disabled>>
    /\ UNCHANGED <<header, containers, rows, runVars>>

(***************************************************************************)
(* The host page.                                                          *)
(***************************************************************************)
\* The host takes its header out of the page, and with it the button that
\* was appended to it.
HostRemoveHeader ==
    /\ header
    /\ header' = FALSE
    /\ pageBtn' = 0
    /\ inPage' = {}
    /\ pending' = TRUE
    /\ UNCHANGED <<disabled, label, containers, rows, runVars>>

\* The host puts a header into the page.
HostAddHeader ==
    /\ ~header
    /\ header' = TRUE
    /\ pending' = TRUE
    /\ UNCHANGED <<pageBtn, inPage, disabled, label, containers, rows, runVars>>

\* The host shows another view: other selectors match.
HostNavigate ==
    /\ \E cs \in Views :
          /\ cs # containers
          /\ containers' = cs
    /\ pending' = TRUE
    /\ UNCHANGED <<header, pageBtn, inPage, disabled, label, rows, runVars>>

\* The host materializes other rows: one of frames.
Render(frames) ==
    /\ \E f \in frames :
          /\ f # rows
          /\ rows' = f
    /\ pending' = TRUE
    /\ UNCHANGED <<header, pageBtn, inPage, disabled, label, containers,
                   runVars>>

\* The virtualized list shows another window.
HostScroll == Render(Windows)

\* The long list loads its last row, or drops it.
HostLoad == Render(LongFrames)

\* The page shows any rows at all.
HostReplaceRows == Render(AnyRows)

(***************************************************************************)
(* Specifications.                                                         *)
(***************************************************************************)
\* No run has begun.
NoRuns ==
    /\ pc = [r \in Runs |-> Idle.pc]
    /\ btn = [r \in Runs |-> Idle.btn]
    /\ i = [r \in Runs |-> Idle.i]
    /\ lastCount = [r \in Runs |-> Idle.lastCount]
    /\ sameCountTimes = [r \in Runs |-> Idle.sameCountTimes]
    /\ rowsRead = [r \in Runs |-> Idle.rowsRead]
    /\ songs = [r \in Runs |-> Idle.songs]
    /\ scrolls = [r \in Runs |-> Idle.scrolls]
    /\ sleeps = [r \in Runs |-> Idle.sleeps]
    /\ polls = [r \in Runs |-> Idle.polls]
    /\ seen = [r \in Runs |-> Idle.seen]
    /\ satisfiedAt = [r \in Runs |-> Idle.satisfiedAt]
    /\ changedAt = [r \in Runs |-> Idle.changedAt]
    /\ extracts = [r \in Runs |-> Idle.extracts]
    /\ alerts = [r \in Runs |-> Idle.alerts]
    /\ copied = [r \in Runs |-> Idle.copied]
    /\ downloaded = [r \in Runs |-> Idle.downloaded]

\* The page once the script has run: the observer is registered and
\* addExportButton has been called once; it added the button if the page had
\* a header then, and that mutation is queued for the observer.
PageLoaded(frames) ==
    /\ header \in BOOLEAN
    /\ pageBtn = IF header THEN 1 ELSE 0
    /\ inPage = IF header THEN {1} ELSE {}
    /\ disabled = [b \in ButtonIds |-> FALSE]
    /\ label = [b \in ButtonIds |-> "Export Songs"]
    /\ rows \in frames
    /\ pending = header
    /\ NoRuns

\* The whole page: the button, the watcher, the host that rebuilds its header
\* and changes its view, any number of clicks, runs that overlap.  The rows
\* stay as they are: SpecCollect is where the host re-renders its list.
Init ==
    /\ PageLoaded(Windows)
    /\ containers \in Views

Next ==
    \/ ExportSongs
    \/ \E r \in Runs : Round(r)
    \/ ObserverCallback
    \/ HostRemoveHeader
    \/ HostAddHeader
    \/ HostNavigate

Spec == Init /\ [][Next]_vars

\* The collector on a playlist page: the host re-renders its list at will.
InitCollect ==
    /\ PageLoaded(Windows)
    /\ header
    /\ containers \in Views

NextCollect ==
    \/ ExportSongs
    \/ \E r \in Runs : Round(r)
    \/ ObserverCallback
    \/ HostScroll

SpecCollect == InitCollect /\ [][NextCollect]_vars

\* ENABLED <<Round(r)>>_vars: the run sleeps and no mutation is queued (a
\* round always counts one more poll).
RoundEnabled(r) == Active(r) /\ ~pending

\* The event loop of the page: the timer of a sleep fires however often the
\* host mutates the page in between (SF_vars(Round(r)), with its ENABLED
\* written out as RoundEnabled(r)), and the observer is called back once
\* mutations are queued.
FairCollect ==
    /\ \A r \in Runs :
          <>[](~RoundEnabled(r)) \/ []<><<Round(r)>>_vars
    /\ WF_vars(ObserverCallback)

SpecCollectFair == SpecCollect /\ FairCollect


\* The collector on the page of a list of 37 items.
InitLong ==
    /\ PageLoaded(LongFrames)
    /\ header
    /\ containers \in Views

NextLong ==
    \/ ExportSongs
    \/ \E r \in Runs : Round(r)
    \/ ObserverCallback
    \/ HostLoad

SpecLong == InitLong /\ [][NextLong]_vars

\* extractSongs on any rows: the page of a view in which no selector matches
\* a container, so that a click runs exportSongs to its end at once.
InitExtract ==
    /\ PageLoaded(AnyRows)
    /\ header
    /\ containers = {}

NextExtract ==
    \/ ExportSongs
    \/ ObserverCallback
    \/ HostReplaceRows

SpecExtract == InitExtract /\ [][NextExtract]_vars


(***************************************************************************)
(* The claims.                                                             *)
(***************************************************************************)
\* The run r has left scrollToLoadAllSongs after at least one round.
Collected(r) == ~Active(r) /\ polls[r] > 0

\* The last count the run r took (lastCount's initial 0 before the first).
LastSeen(r) == seen[r][Len(seen[r])]

\* C1, as stated: a collector whose counts stayed the same for more than
\* StabilityThreshold polls in a row (first so at poll satisfiedAt, before
\* the budget of rounds was used up) ends exactly one poll after that one,
\* and triggers no scroll after it.
C1_EndsOnePollLater ==
    \A r \in Runs :
        (Collected(r) /\ satisfiedAt[r] # 0 /\ satisfiedAt[r] < MaxIterations)
            => /\ polls[r] = satisfiedAt[r] + 1
               /\ scrolls[r] = satisfiedAt[r]

\* C1, amended: the collector ends in the very poll in which the count has
\* first stayed the same for more than StabilityThreshold polls in a row; it
\* takes no further poll and triggers no further scroll.
C1_EndsInThatPoll ==
    \A r \in Runs :
        satisfiedAt[r] # 0
            => /\ ~Active(r)
               /\ polls[r] = satisfiedAt[r]
               /\ scrolls[r] = satisfiedAt[r]
               /\ sameCountTimes[r] = StabilityThreshold + 1

\* A collector that ended at its 9th poll, by stability, well before the
\* budget, after counts that had changed.
C1_Witness ==
    \E r \in Runs :
        /\ Collected(r)
        /\ satisfiedAt[r] = 9
        /\ changedAt[r] = 5
        /\ LastSeen(r) # 0

\* C2: when the count differs at round 5 from round 4, is 37 then and stays
\* 37, the collector is still running before its 9th round, stops at the
\* 9th having triggered 9 scrolls, and extractSongs is then called once and
\* returns at most 37 records.
C2_StopsAfterNineRounds ==
    \A r \in Runs :
        (polls[r] > 0 /\ changedAt[r] = 5 /\ LastSeen(r) = 37)
            => /\ polls[r] <= 9
               /\ polls[r] < 9 => Active(r) /\ extracts[r] = 0
               /\ polls[r] = 9 =>
                     /\ ~Active(r)
                     /\ scrolls[r] = 9
                     /\ extracts[r] = 1
                     /\ Len(rowsRead[r]) = 37
                     /\ Len(songs[r]) <= 37

\* The cycle of that scenario, ended with an export.
C2_Witness ==
    \E r \in Runs :
        /\ pc[r] = "done"
        /\ changedAt[r] = 5
        /\ LastSeen(r) = 37
        /\ polls[r] = 9
        /\ Len(songs[r]) > 0

\* C3: a collector whose counts never stayed the same for more than
\* StabilityThreshold polls in a row takes exactly MaxIterations rounds
\* (as many scrolls, as many counts) and returns; exportSongs then extracts
\* the rows that are materialized, with no report of an error.
C3_RunsAllRounds ==
    \A r \in Runs :
        (Collected(r) /\ satisfiedAt[r] = 0)
            => /\ polls[r] = MaxIterations
               /\ scrolls[r] = MaxIterations
               /\ sleeps[r] = MaxIterations
               /\ extracts[r] = 1
               /\ Len(rowsRead[r]) = LastSeen(r)
               /\ \A k \in 1..Len(alerts[r]) : alerts[r][k] # ContainerNotFound

\* A collector that used up its rounds without a stable count, and whose
\* cycle went on to export what was there.
C3_Witness ==
    \E r \in Runs :
        /\ pc[r] = "done"
        /\ satisfiedAt[r] = 0
        /\ polls[r] = MaxIterations
        /\ alerts[r] = <<Exported(Len(songs[r]))>>
        /\ Len(songs[r]) > 0


\* The alerts of the run r that are of kind kind.
AlertsOf(r, kind) == {k \in 1..Len(alerts[r]) : alerts[r][k].kind = kind}

\* C4: once a run has reported that no container was found, it extracts no
\* rows, writes nothing to the clipboard, downloads nothing and shows no
\* notice of success.
C4_NoPartialAttempt ==
    \A r \in Runs :
        AlertsOf(r, "containerNotFound") # {}
            => /\ extracts[r] = 0
               /\ copied[r] = <<>>
               /\ downloaded[r] = <<>>
               /\ AlertsOf(r, "exported") = {}

\* C5: on a page where no selector matches, a run reports it once, before
\* anything else, and its collector has triggered no scroll, started no wait
\* and counted no rows; on any other page it reports no such thing and
\* scrolls.
C5_NotFoundNoRounds ==
    \A r \in Runs :
        pc[r] # "idle"
            => IF containers = {}
               THEN /\ AlertsOf(r, "containerNotFound") = {1}
                    /\ scrolls[r] = 0
                    /\ sleeps[r] = 0
                    /\ polls[r] = 0
                    /\ ~Active(r)
               ELSE /\ AlertsOf(r, "containerNotFound") = {}
                    /\ scrolls[r] >= 1

\* A cycle on a page without a container that has ended.
C5_Witness ==
    \E r \in Runs :
        /\ containers = {}
        /\ pc[r] = "done"
        /\ alerts[r][1] = ContainerNotFound
        /\ scrolls[r] = 0

\* C6: at most one run of exportSongs is in progress at any time.
C6_OneRunAtATime == Cardinality({r \in Runs : Active(r)}) <= 1

\* C7: a cycle whose collector has run and that has exported its songs holds
\* a record for every item of the playlist whose row can be read.
C7_EveryItemCollected ==
    \A r \in Runs :
        (Collected(r) /\ pc[r] = "done" /\ AlertsOf(r, "exported") # {})
            => \A k \in 1..PlaylistLen :
                  \A j \in 1..Len(RowLines(RowPool[Playlist[k]])) :
                      \E m \in 1..Len(songs[r]) :
                          songs[r][m] = RowLines(RowPool[Playlist[k]])[j]

\* The lines of a text: one more than its line breaks.
LineCount(text) == 1 + Cardinality({k \in 1..Len(text) : text[k] = "\n"})

\* C8: a cycle whose extraction yields no record ends with the notice that
\* no songs were found, and with no write to the clipboard, no download and
\* no notice of success; a notice of success reports a count of at least 1,
\* the number of records, which is the number of lines given to each sink.
C8_EmptyIsNotSuccess ==
    \A r \in Runs :
        extracts[r] = 1
            => /\ songs[r] = <<>> =>
                     /\ pc[r] = "done"
                     /\ alerts[r][Len(alerts[r])] = NoSongsFound
                     /\ AlertsOf(r, "exported") = {}
                     /\ copied[r] = <<>>
                     /\ downloaded[r] = <<>>
               /\ \A k \in AlertsOf(r, "exported") :
                     /\ alerts[r][k].n >= 1
                     /\ alerts[r][k].n = Len(songs[r])
                     /\ Len(downloaded[r]) = 1
                     /\ LineCount(downloaded[r][1]) = alerts[r][k].n
                     /\ \A j \in 1..Len(copied[r]) :
                           LineCount(copied[r][j]) = alerts[r][k].n

\* A cycle whose collector ran and whose extraction found nothing.
C8_Witness ==
    \E r \in Runs :
        /\ polls[r] > 0
        /\ extracts[r] = 1
        /\ songs[r] = <<>>
        /\ alerts[r] = <<NoSongsFound>>

\* A row with a title element and at least one artist link, whose read does
\* not raise.
WellFormed(id) ==
    /\ RowPool[id].title # NoTitle
    /\ RowPool[id].artists # <<>>
    /\ RowPool[id].fault = "none"

\* The positions of ids whose row can be read without an error.
Readable(ids) == {k \in 1..Len(ids) : RowPool[ids[k]].fault = "none"}

\* C9, as stated: extractSongs returns as many records as it read
\* well-formed rows.
C9_OnlyWellFormedKept ==
    \A r \in Runs :
        extracts[r] = 1
            => Len(songs[r]) =
                  Cardinality({k \in 1..Len(rowsRead[r]) :
                                  WellFormed(rowsRead[r][k])})

\* C9, amended: extractSongs returns as many records as it read rows whose
\* read raised no error, and no such error ends the cycle: a run fails only
\* at its sinks, which it reaches only with records.
C9_OnlyRaisingDropped ==
    \A r \in Runs :
        extracts[r] = 1
            => /\ Len(songs[r]) = Cardinality(Readable(rowsRead[r]))
               /\ pc[r] \in {"done", "failed"}
               /\ pc[r] = "failed" => songs[r] # <<>>

\* An extraction that read a row whose read raises and a row without a
\* title.
C9_Witness ==
    \E r \in Runs :
        /\ extracts[r] = 1
        /\ \E j, k \in 1..Len(rowsRead[r]) :
              /\ RowPool[rowsRead[r][j]].fault # "none"
              /\ RowPool[rowsRead[r][k]].fault = "none"
              /\ ~WellFormed(rowsRead[r][k])

\* The text s begins with the text p.
StartsWith(s, p) == Len(s) >= Len(p) /\ SubSeq(s, 1, Len(p)) = p

\* The rows of ids that can be read, in their order.
ReadableRows(ids) == SelectSeq(ids, LAMBDA id : RowPool[id].fault = "none")

\* C10: the k-th record is that of the k-th row whose read raised no error;
\* for a row without a title element it is "[Unknown Title]", " - " and the
\* artists joined by ", ", and for no other row does it begin so.
C10_SentinelOrDropped ==
    \A r \in Runs :
        extracts[r] = 1
            => LET kept == ReadableRows(rowsRead[r])
               IN  /\ Len(songs[r]) = Len(kept)
                   /\ \A k \in 1..Len(kept) :
                         LET row == RowPool[kept[k]]
                             line == songs[r][k]
                             sentinel == UnknownTitle \o Dash
                         IN  IF row.title = NoTitle
                             THEN line = sentinel \o
                                         Join(MapTrim(row.artists), Comma)
                             ELSE ~StartsWith(line, sentinel)

\* An extraction of a row whose read raises followed by a row without a
\* title: one record, the sentinel's.
C10_Witness ==
    \E r \in Runs :
        /\ extracts[r] = 1
        /\ rowsRead[r] = <<4, 2>>
        /\ Len(songs[r]) = 1
        /\ StartsWith(songs[r][1], UnknownTitle)


\* C11: a cycle whose collector ran and that reached its sinks with records
\* completes; when the write to the clipboard failed, the user is told so by
\* a notice of its own, and the same text is still offered as the download.
C11_SinkFailureTolerated ==
    \A r \in Runs :
        (Collected(r) /\ songs[r] # <<>>)
            => /\ pc[r] = "done"
               /\ downloaded[r] = <<TextOf(songs[r])>>
               /\ copied[r] = <<>> =>
                     \E k \in 1..Len(alerts[r]) :
                         alerts[r][k].kind \notin
                             {"containerNotFound", "noSongs", "exported"}


\* C12: the page never holds more than one element with the id of the button,
\* and a call of addExportButton made while the button exists, or while there
\* is no header, leaves the buttons of the page as they are.  (A step taken
\* while mutations are queued that leaves header, containers and rows alone
\* is the callback of the observer: the host changes one of the three, and
\* the tasks of the script wait for the queue.)
C12_AtMostOneButton ==
    /\ [](Cardinality(inPage) <= 1)
    /\ [][(/\ pending
           /\ (inPage # {} \/ ~header)
           /\ UNCHANGED <<header, containers, rows>>)
             => UNCHANGED <<pageBtn, inPage, label, disabled>>]_vars

\* The host has rebuilt its header, addExportButton has put a second button
\* element into it, and the callback that followed found it there.
C12_Witness ==
    /\ header
    /\ pageBtn # 0
    /\ pageBtn # 1
    /\ inPage = {pageBtn}
    /\ ~pending


\* The first k of names, each after the first preceded by a comma and a
\* space.
RECURSIVE ListOf(_, _)
ListOf(names, k) ==
    IF k = 0 THEN <<>>
    ELSE IF k = 1 THEN names[1]
    ELSE ListOf(names, k - 1) \o <<",", " ">> \o names[k]

\* C13: the line of every row that yields a record is its title, then " - ",
\* then its artist names in their order within the row with ", " between
\* them; for a row without artists it is the title and " - " and no more,
\* and the row still has its record.
C13_CanonicalLine ==
    \A r \in Runs :
        extracts[r] = 1
            => LET kept == ReadableRows(rowsRead[r])
               IN  /\ Len(songs[r]) = Len(kept)
                   /\ \A k \in 1..Len(kept) :
                         LET row == RowPool[kept[k]]
                             title == IF row.title = NoTitle
                                      THEN UnknownTitle ELSE Trim(row.title)
                             names == [j \in 1..Len(row.artists) |->
                                          Trim(row.artists[j])]
                             line == songs[r][k]
                         IN  /\ line = title \o <<" ", "-", " ">>
                                             \o ListOf(names, Len(names))
                             /\ names = <<>> =>
                                   /\ Len(line) = Len(title) + 3
                                   /\ SubSeq(line, Len(title) + 1, Len(line))
                                         = <<" ", "-", " ">>
                             /\ kept[k] = 1 =>
                                   line = <<"A", " ", "-", " ",
                                            "x", ",", " ", "y">>
                             /\ kept[k] = 3 => line = <<"B", " ", "-", " ">>

\* An extraction of a row with two artists and of a row with none.
C13_Witness ==
    \E r \in Runs :
        /\ extracts[r] = 1
        /\ rowsRead[r] = <<1, 3>>
        /\ Len(songs[r]) = 2
        /\ songs[r][2] = <<"B", " ", "-", " ">>


\* The positions of rowsRead[r] up to k whose row can be read: the number of
\* records the rows up to the k-th have yielded.
KeptUpTo(r, k) == Cardinality({j \in Readable(rowsRead[r]) : j <= k})

\* C14: the records are those of the rows read that were not dropped, in the
\* order of the rows in the DOM: the row at position k, if it can be read,
\* has its record at the position that counts the readable rows up to k, and
\* there are no other records.  Rows that are equal each have their record.
C14_DomOrderKept ==
    \A r \in Runs :
        extracts[r] = 1
            => /\ Len(songs[r]) = KeptUpTo(r, Len(rowsRead[r]))
               /\ \A k \in Readable(rowsRead[r]) :
                     songs[r][KeptUpTo(r, k)]
                         = RowLines(RowPool[rowsRead[r][k]])[1]

\* An extraction of the same row twice: two records, equal.
C14_Witness ==
    \E r \in Runs :
        /\ extracts[r] = 1
        /\ rowsRead[r] = <<1, 1>>
        /\ Len(songs[r]) = 2
        /\ songs[r][1] = songs[r][2]


\* C15: while the collector of a run is at its rounds the run has called
\* extractSongs not once and has read no row; a run that has ended has called
\* it exactly once, after its last round.
C15_ExtractsOnceAtEnd ==
    \A r \in Runs :
        /\ Active(r) =>
              /\ extracts[r] = 0
              /\ rowsRead[r] = <<>>
              /\ songs[r] = <<>>
        /\ pc[r] \in {"done", "failed"} => extracts[r] = 1

\* A run that counted rows in five rounds and then read the one row there
\* was.
C15_Witness ==
    \E r \in Runs :
        /\ pc[r] = "done"
        /\ polls[r] = 5
        /\ extracts[r] = 1
        /\ Len(rowsRead[r]) = 1


\* C16: a collector that has begun its rounds comes to an end; it takes at
\* most MaxIterations rounds; when it has ended, its streak of equal counts
\* exceeded StabilityThreshold or it took MaxIterations rounds; and it ends
\* in no step but a round of its own.
C16_EndsByStreakOrBudget ==
    /\ [](\A r \in Runs :
             /\ polls[r] <= MaxIterations
             /\ Collected(r) =>
                   \/ sameCountTimes[r] > StabilityThreshold
                   \/ polls[r] = MaxIterations)
    /\ [][\A r \in Runs :
             (Active(r) /\ ~Active(r)') => polls'[r] = polls[r] + 1]_vars
    /\ \A r \in Runs : Active(r) ~> ~Active(r)

\* A collector that went on to its last round although the count of its
\* last round but one had gone down.
C16_Witness ==
    \E r \in Runs :
        /\ Collected(r)
        /\ polls[r] = MaxIterations
        /\ sameCountTimes[r] <= StabilityThreshold
        /\ seen[r][HistLen - 2] > seen[r][HistLen - 1]


\* C17: a collector that ended before it had taken MaxIterations rounds took
\* at least StabilityThreshold + 1 rounds, and the counts of its last
\* StabilityThreshold + 1 rounds and the count before them (lastCount's
\* initial 0 when there was no round before them) are all the same.
C17_StopsOnlyOnFlatRun ==
    \A r \in Runs :
        (Collected(r) /\ polls[r] < MaxIterations)
            => /\ polls[r] >= StabilityThreshold + 1
               /\ Len(seen[r]) = StabilityThreshold + 2
               /\ \A k \in 1..Len(seen[r]) : seen[r][k] = LastSeen(r)

\* A collector whose first count was the same as lastCount's 0 and whose
\* second was not: it went on for four rounds more.
C17_Witness ==
    \E r \in Runs :
        /\ Collected(r)
        /\ polls[r] = StabilityThreshold + 3
        /\ changedAt[r] = 2
        /\ sameCountTimes[r] = StabilityThreshold + 1


\* C18: a collector that counted zero rows in every round (no count differed
\* from the one before, the first not from lastCount's initial 0) is at its
\* rounds for less than four of them and ends at the fourth; its cycle reads
\* no row and ends with the notice that no songs were found, whatever the
\* page shows afterwards.
C18_EmptyPageStopsAtFour ==
    \A r \in Runs :
        (polls[r] > 0 /\ changedAt[r] = 0)
            => /\ LastSeen(r) = 0
               /\ Active(r) => polls[r] < StabilityThreshold + 1
               /\ ~Active(r) =>
                     /\ polls[r] = StabilityThreshold + 1
                     /\ scrolls[r] = StabilityThreshold + 1
                     /\ rowsRead[r] = <<>>
                     /\ songs[r] = <<>>
                     /\ alerts[r] = <<NoSongsFound>>
                     /\ pc[r] = "done"

\* A cycle that found no songs in four rounds, on a page that has since
\* materialized a row.
C18_Witness ==
    \E r \in Runs :
        /\ pc[r] = "done"
        /\ polls[r] = StabilityThreshold + 1
        /\ changedAt[r] = 0
        /\ alerts[r] = <<NoSongsFound>>
        /\ rows # <<>>


\* C19: the button of a cycle whose collector ran and that has come to its
\* end is enabled and labelled "Export Songs", unless a cycle in progress
\* holds it.
C19_ButtonRestored ==
    \A r \in Runs :
        (Collected(r) /\ ~(\E q \in Runs : Active(q) /\ btn[q] = btn[r]))
            => /\ ~disabled[btn[r]]
               /\ label[btn[r]] = "Export Songs"

=============================================================================
